---- MODULE Spec2Model ----
(***************************************************************************)
(* PhotoToKML: clustering of geotagged photographs into KML point          *)
(* documents (kml.py, PlainExtractTotrack.py) and the conversion of point  *)
(* placemarks into two-vertex tracks (topath.py, PlainExtractTotrack.py).  *)
(*                                                                         *)
(* Three specifications share the variables of this module:                *)
(*   Spec         one run of process_directory over one leaf directory;    *)
(*   SpecCluster  cluster_points applied to bounded inputs;                *)
(*   SpecTrack    one track pass (process_tracks / topath.main).           *)
(***************************************************************************)
EXTENDS Integers, Sequences, FiniteSets, TLC

VARIABLES
    \* ---- process_directory (kml.py 116-214)
    pc,                     \* position in process_directory
    photo_files,            \* number of photo files of the directory (named 1..n)
    next_photo,             \* index of the photo the extraction loop handles next
    photos_with_gps,        \* list of (photo, lat, lon, timestamp)
    no_gps_count,
    failed_count,
    clusters,               \* dict label -> members, as a list in insertion order
    next_cluster,           \* position of the loop over clusters.items()
    valid_cluster_count,
    total_clusters,
    total_discarded_points,
    log_messages,
    kml_written,            \* output directory: KML file number -> document
    kml_writes,             \* number of create_kml calls that wrote a file
    log_written,            \* output directory: the log file (written, content)
    generated_files,        \* main's list of generated paths
    \* ---- cluster_points applied on its own
    cp_input,               \* photos_with_gps handed to cluster_points
    cp_max_distance,        \* max_distance in metres
    cp_result,              \* the call's outcome (returned, value)
    \* ---- track pass
    tk_pc,
    tk_kml_files,           \* the scanned *.kml documents, in glob order
    tk_xmp_files,           \* the scanned *.xmp documents, in glob order
    tk_next,                \* index of the next document of the current loop
    folder_tracks,          \* children appended to the Tracks folder
    tk_output,              \* the TrackDocument file (written, content)
    tk_earlier,             \* the TrackDocument file of the run before this one
    \* ---- create_kml and sanitize_path applied on their own
    fn_input,               \* the argument of the call
    fn_result,              \* the call's outcome (returned, value)
    \* ---- main of kml.py: the loop over the leaf directories
    run_pc,
    leaf_directories,       \* the leaf directories, in os.walk order
    run_next,               \* index of the directory the loop handles next
    run_logs,               \* the directories whose log file was written
    \* ---- cleankml.py
    cl_pc,
    cl_initial,             \* the directory tree when the script starts
    cl_tree,                \* the directory tree now
    output_subdirs,         \* the result of find_output_subdirs
    confirm,                \* the answer, trimmed and lower-cased
    cl_log_messages,        \* log_messages of cleankml.main
    deletion_log            \* the deletion log file (written, content)

dirVars == <<pc, photo_files, next_photo, photos_with_gps, no_gps_count,
             failed_count, clusters, next_cluster, valid_cluster_count,
             total_clusters, total_discarded_points, log_messages,
             kml_written, kml_writes, log_written, generated_files>>
cpVars == <<cp_input, cp_max_distance, cp_result>>
trackVars ==
    <<tk_pc, tk_kml_files, tk_xmp_files, tk_next, folder_tracks, tk_output,
      tk_earlier>>
fnVars == <<fn_input, fn_result>>
runVars == <<run_pc, leaf_directories, run_next, run_logs>>
cleanVars == <<cl_pc, cl_initial, cl_tree, output_subdirs, confirm,
               cl_log_messages, deletion_log>>
restVars == <<fnVars, runVars, cleanVars>>
vars == <<dirVars, cpVars, trackVars, restVars>>

(***************************************************************************)
(* Bounds of the model.                                                    *)
(***************************************************************************)
MaxPhotos == 8          \* photo files in the directory processed by Spec
MaxOther == 1           \* of them, photos that yield no GPS record
MaxInput == 5           \* records handed to cluster_points in SpecCluster

NoFile == [written |-> FALSE, content |-> <<>>]
File(content) == [written |-> TRUE, content |-> content]

\* the elements of a sequence
Range(seq) == {seq[i] : i \in 1..Len(seq)}
NotRun == [returned |-> FALSE, value |-> <<>>]
Returned(value) == [returned |-> TRUE, value |-> value]
\* timestamp = None; a text is the sequence of its characters
NoTimestamp == <<"None">>

\* ------------------------------------------------------------------------
\* Coordinates.  Latitude and longitude are integers in units of 0.01
\* degree, on a patch next to the equator and the prime meridian.  There
\* the haversine distance that DBSCAN(metric='haversine') computes on
\* np.radians(coords) times the earth radius 6371 km of kml.py line 68 is
\* GridMetres * sqrt(dlat^2 + dlon^2) to within 0.02 percent.
\* ------------------------------------------------------------------------
GridMetres == 1112      \* 6371000 m * pi / 180 * 0.01, rounded

Sq(n) == n * n

\* squared great-circle distance in square metres
haversine_sq(a, b) ==
    Sq(GridMetres) * (Sq(a.lat - b.lat) + Sq(a.lon - b.lon))

\* radius_neighbors of DBSCAN: distance <= eps, eps = max_distance / 6371
within_eps(a, b, max_distance) ==
    haversine_sq(a, b) <= Sq(max_distance)

\* neighborhoods[i]: the indices within eps of point i, ascending (i included)
neighborhood(coords, i, max_distance) ==
    SelectSeq([j \in 1..Len(coords) |-> j],
              LAMBDA j: within_eps(coords[i], coords[j], max_distance))

\* push every still unlabelled neighbour on the stack (sklearn dbscan_inner)
RECURSIVE push_unlabelled(_, _, _, _)
push_unlabelled(labels, neighb, k, stack) ==
    IF k > Len(neighb) THEN stack
    ELSE push_unlabelled(labels, neighb, k + 1,
            IF labels[neighb[k]] = -1 THEN Append(stack, neighb[k]) ELSE stack)

\* mutant: only the direct neighbours of the seed join its cluster
Mut_dbscan_expand_direct(coords, max_distance, labels, stack, i, label_num) ==
    [k \in 1..Len(labels) |->
        IF labels[k] = -1 /\ within_eps(coords[i], coords[k], max_distance)
        THEN label_num ELSE labels[k]]

\* the depth-first expansion of one cluster from point i
RECURSIVE dbscan_expand(_, _, _, _, _, _)
dbscan_expand(coords, max_distance, labels, stack, i, label_num) ==
    LET labelled == labels[i] # -1
        labels1 == IF labelled THEN labels ELSE [labels EXCEPT ![i] = label_num]
        stack1 == IF labelled THEN stack
                  ELSE push_unlabelled(labels1,
                           neighborhood(coords, i, max_distance), 1, stack)
    IN  IF Len(stack1) = 0 THEN labels1
        ELSE dbscan_expand(coords, max_distance, labels1,
                 SubSeq(stack1, 1, Len(stack1) - 1), stack1[Len(stack1)], label_num)

\* the outer loop over the points in input order; min_samples = 1 makes every
\* point a core point, so no point keeps the noise label -1
RECURSIVE dbscan_loop(_, _, _, _, _)
dbscan_loop(coords, max_distance, labels, i, label_num) ==
    IF i > Len(coords) THEN labels
    ELSE IF labels[i] # -1
         THEN dbscan_loop(coords, max_distance, labels, i + 1, label_num)
         ELSE dbscan_loop(coords, max_distance,
                  dbscan_expand(coords, max_distance, labels, <<>>, i, label_num),
                  i + 1, label_num + 1)

\* DBSCAN(eps, min_samples=1, metric='haversine').fit(coords_rad).labels_
DBSCAN_labels(coords, max_distance) ==
    dbscan_loop(coords, max_distance, [i \in 1..Len(coords) |-> -1], 1, 0)

\* position of label in the dict's insertion order, 0 when absent
RECURSIVE dict_index(_, _, _)
dict_index(dict, label, k) ==
    IF k > Len(dict) THEN 0
    ELSE IF dict[k].label = label THEN k ELSE dict_index(dict, label, k + 1)

\* mutant: the list of an existing label is replaced, not extended
Mut_setdefault_replace(dict, label, rec) ==
    LET k == dict_index(dict, label, 1)
    IN  IF k = 0 THEN Append(dict, [label |-> label, members |-> <<rec>>])
        ELSE [dict EXCEPT ![k].members = <<rec>>]

\* mutant: a new label is put in front of the labels already seen
Mut_setdefault_front(dict, label, rec) ==
    LET k == dict_index(dict, label, 1)
    IN  IF k = 0 THEN <<[label |-> label, members |-> <<rec>>]>> \o dict
        ELSE [dict EXCEPT ![k].members = Append(@, rec)]

\* clusters.setdefault(label, []).append(record)
setdefault_append(dict, label, rec) ==
    LET k == dict_index(dict, label, 1)
    IN  IF k = 0 THEN Append(dict, [label |-> label, members |-> <<rec>>])
        ELSE [dict EXCEPT ![k].members = Append(@, rec)]

RECURSIVE group_by_label(_, _, _, _)
group_by_label(labels, photos, k, dict) ==
    IF k > Len(photos) THEN dict
    ELSE group_by_label(labels, photos, k + 1,
                        setdefault_append(dict, labels[k], photos[k]))

\* cluster_points(photos_with_gps, max_distance): kml.py 57-75
cluster_points(photos, max_distance) ==
    IF Len(photos) = 0 THEN <<>>
    ELSE group_by_label(DBSCAN_labels(photos, max_distance), photos, 1, <<>>)

\* ------------------------------------------------------------------------
\* SpecCluster: cluster_points applied to bounded inputs.
\* ------------------------------------------------------------------------
ClusterPositions ==
    {[lat |-> y, lon |-> 0] : y \in {0, 1, 2, 4}} \cup {[lat |-> 1, lon |-> 1]}
MaxDistances == {1000, 1800, 2500}      \* metres

\* a list of GPS records at the given positions; the photo names are distinct
\* file names of one directory, modelled as 1..n
records_at(positions) ==
    [i \in 1..Len(positions) |->
        [name |-> i, lat |-> positions[i].lat, lon |-> positions[i].lon,
         ts |-> NoTimestamp]]

DirIdle ==
    /\ pc = "idle" /\ photo_files = 0 /\ next_photo = 0
    /\ photos_with_gps = <<>> /\ no_gps_count = 0 /\ failed_count = 0
    /\ clusters = <<>> /\ next_cluster = 0 /\ valid_cluster_count = 0
    /\ total_clusters = 0 /\ total_discarded_points = 0
    /\ log_messages = <<>> /\ kml_written = <<>> /\ kml_writes = 0
    /\ log_written = NoFile /\ generated_files = <<>>

CpIdle == cp_input = <<>> /\ cp_max_distance = 0 /\ cp_result = NotRun

TrackIdle ==
    /\ tk_pc = "idle" /\ tk_kml_files = <<>> /\ tk_xmp_files = <<>>
    /\ tk_next = 0 /\ folder_tracks = <<>> /\ tk_output = NoFile
    /\ tk_earlier = NoFile

FnIdle == fn_input = <<>> /\ fn_result = NotRun

RunIdle ==
    /\ run_pc = "idle" /\ leaf_directories = <<>> /\ run_next = 0 /\ run_logs = {}

CleanIdle ==
    /\ cl_pc = "idle" /\ cl_initial = <<>> /\ cl_tree = <<>>
    /\ output_subdirs = <<>> /\ confirm = <<>> /\ cl_log_messages = <<>>
    /\ deletion_log = NoFile

RestIdle == FnIdle /\ RunIdle /\ CleanIdle

InitCluster ==
    /\ DirIdle /\ TrackIdle /\ RestIdle
    /\ \E n \in 0..MaxInput : \E ps \in [1..n -> ClusterPositions] :
           cp_input = records_at(ps)
    /\ cp_max_distance \in MaxDistances
    /\ cp_result = NotRun

run_cluster_points ==
    /\ ~cp_result.returned
    /\ cp_result' = Returned(cluster_points(cp_input, cp_max_distance))
    /\ UNCHANGED <<cp_input, cp_max_distance, dirVars, trackVars, restVars>>

NextCluster == run_cluster_points

SpecCluster == InitCluster /\ [][NextCluster]_vars

\* ------------------------------------------------------------------------
\* Spec: process_directory over one leaf directory (kml.py 116-214,
\* PlainExtractTotrack.py 171-261).
\* ------------------------------------------------------------------------
MaxDistanceMetres == 1800       \* max_distance=1.8 km
MinClusterSize == 3             \* len(cluster_points_list) > 3

\* what extract_gps can give for one photo: coordinates, None, or an
\* exception raised by open()
DirPositions == {[lat |-> 0, lon |-> 0], [lat |-> 0, lon |-> 2]}
Extractions ==
    {[kind |-> "gps", lat |-> p.lat, lon |-> p.lon, ts |-> NoTimestamp] :
        p \in DirPositions}
    \cup {[kind |-> "none", lat |-> 0, lon |-> 0, ts |-> NoTimestamp],
          [kind |-> "raise", lat |-> 0, lon |-> 0, ts |-> NoTimestamp]}

Msg(kind, a, b) == [kind |-> kind, a |-> a, b |-> b]
KmlPath(n) == [kind |-> "kml", n |-> n]
LogPath == [kind |-> "log", n |-> 0]

Init ==
    /\ CpIdle /\ TrackIdle /\ RestIdle
    /\ pc = "enter"
    /\ photo_files \in 0..MaxPhotos
    /\ next_photo = 1
    /\ photos_with_gps = <<>> /\ no_gps_count = 0 /\ failed_count = 0
    /\ clusters = <<>> /\ next_cluster = 0 /\ valid_cluster_count = 0
    /\ total_clusters = 0 /\ total_discarded_points = 0
    /\ log_messages = <<>> /\ kml_written = <<>> /\ kml_writes = 0
    /\ log_written = NoFile /\ generated_files = <<>>

\* lines 121-159: the output directory exists already (kml.py 134-136) or no
\* photo file is found (143-145): return; else start the log
enter_directory ==
    /\ pc = "enter"
    /\ \E output_exists \in BOOLEAN :
        IF output_exists \/ photo_files = 0
        THEN /\ pc' = "skipped"
             /\ UNCHANGED log_messages
        ELSE /\ pc' = "extract"
             /\ log_messages' = <<Msg("files", photo_files, 0)>>
    /\ UNCHANGED <<photo_files, next_photo, photos_with_gps, no_gps_count,
                   failed_count, clusters, next_cluster, valid_cluster_count,
                   total_clusters, total_discarded_points, kml_written,
                   kml_writes, log_written, generated_files, cpVars, trackVars,
                   restVars>>

\* mutant: a photo whose extraction raised is counted as without GPS too
Mut_no_gps_after_raise(gps_data, count) ==
    IF gps_data.kind # "gps" THEN count + 1 ELSE count

\* lines 165-169: no_gps_count after one photo
no_gps_after(gps_data, count) ==
    IF gps_data.kind = "none" THEN count + 1 ELSE count

\* lines 161-172: one iteration of the extraction loop
extract_photo ==
    /\ pc = "extract"
    /\ \E gps_data \in Extractions :
        /\ gps_data.kind # "gps" => no_gps_count + failed_count < MaxOther
        /\ photos_with_gps' =
              IF gps_data.kind = "gps"
              THEN Append(photos_with_gps,
                          [name |-> next_photo, lat |-> gps_data.lat,
                           lon |-> gps_data.lon, ts |-> gps_data.ts])
              ELSE photos_with_gps
        /\ no_gps_count' = no_gps_after(gps_data, no_gps_count)
        /\ failed_count' = IF gps_data.kind = "raise" THEN failed_count + 1
                           ELSE failed_count
        /\ log_messages' = IF gps_data.kind = "raise"
                           THEN Append(log_messages, Msg("failed", next_photo, 0))
                           ELSE log_messages
    /\ next_photo' = next_photo + 1
    /\ pc' = IF next_photo = photo_files THEN "cluster" ELSE "extract"
    /\ UNCHANGED <<photo_files, clusters, next_cluster, valid_cluster_count,
                   total_clusters, total_discarded_points, kml_written,
                   kml_writes, log_written, generated_files, cpVars, trackVars,
                   restVars>>

\* len([c for c in clusters.values() if len(c) > 3])
RECURSIVE count_valid(_, _)
count_valid(dict, k) ==
    IF k > Len(dict) THEN 0
    ELSE (IF Len(dict[k].members) > MinClusterSize THEN 1 ELSE 0)
         + count_valid(dict, k + 1)

\* lines 174-181 and 199-200
cluster_step ==
    /\ pc = "cluster"
    /\ IF Len(photos_with_gps) > 0
       THEN /\ clusters' = cluster_points(photos_with_gps, MaxDistanceMetres)
            /\ total_clusters' = count_valid(clusters', 1)
            /\ next_cluster' = 1
            /\ pc' = "emit"
            /\ UNCHANGED log_messages
       ELSE /\ log_messages' = Append(log_messages, Msg("no_gps", 0, 0))
            /\ pc' = "log"
            /\ UNCHANGED <<clusters, total_clusters, next_cluster>>
    /\ valid_cluster_count' = 0
    /\ total_discarded_points' = 0
    /\ UNCHANGED <<photo_files, next_photo, photos_with_gps, no_gps_count,
                   failed_count, kml_written, kml_writes, log_written,
                   generated_files, cpVars, trackVars,
                   restVars>>

\* str.replace(old, new, count) for a one-character old; a negative count
\* replaces every occurrence
RECURSIVE str_replace(_, _, _, _)
str_replace(text, old, new, count) ==
    IF Len(text) = 0 THEN <<>>
    ELSE IF Head(text) = old /\ count # 0
    THEN new \o str_replace(Tail(text), old, new, count - 1)
    ELSE <<Head(text)>> \o str_replace(Tail(text), old, new, count)

Unlimited == -1     \* str.replace without a count

\* mutant: every colon becomes a hyphen
Mut_kml_when_all_colons(timestamp) ==
    IF timestamp = NoTimestamp \/ Len(timestamp) = 0 THEN NoTimestamp
    ELSE Append(str_replace(str_replace(timestamp, ":", <<"-">>, Unlimited),
                            " ", <<"T">>, Unlimited), "Z")

\* kml.py 95-100: the text of TimeStamp/when, or none for a timestamp that
\* is None or empty
kml_when(timestamp) ==
    IF timestamp = NoTimestamp \/ Len(timestamp) = 0 THEN NoTimestamp
    ELSE Append(str_replace(str_replace(timestamp, ":", <<"-">>, 2),
                            " ", <<"T">>, Unlimited), "Z")

\* create_kml (kml.py 77-114): the document written to output_file
create_kml(cluster_points_list, cluster_number, total, folder_name) ==
    [title |-> [folder |-> folder_name, number |-> cluster_number, total |-> total],
     placemarks |-> [i \in 1..Len(cluster_points_list) |->
                        [cluster_points_list[i] EXCEPT !.ts = kml_when(@)]]]

\* open(output_file, "wb").write(...): the file is created or replaced
write_file(dir, n, doc) ==
    [k \in DOMAIN dir \cup {n} |-> IF k = n THEN doc ELSE dir[k]]

\* mutant: a cluster of exactly 3 records is kept
Mut_is_valid_cluster_ge(cluster_points_list) ==
    Len(cluster_points_list) >= MinClusterSize

\* the test of line 184
is_valid_cluster(cluster_points_list) ==
    Len(cluster_points_list) > MinClusterSize

\* mutant: the counter is read before it is incremented
Mut_kml_number_stale(count) == count

\* the file number of line 186, from the counter incremented on line 185
kml_number(count) == count + 1

\* lines 183-194: one iteration of the loop over clusters.items()
emit_cluster ==
    /\ pc = "emit"
    /\ next_cluster <= Len(clusters)
    /\ LET cluster_points_list == clusters[next_cluster].members
           number == kml_number(valid_cluster_count)
       IN  IF is_valid_cluster(cluster_points_list)
           THEN /\ valid_cluster_count' = number
                /\ kml_written' = write_file(kml_written, number,
                       create_kml(cluster_points_list, number, total_clusters,
                                  "folder"))
                /\ kml_writes' = kml_writes + 1
                /\ log_messages' = Append(log_messages,
                       Msg("kml", number, Len(cluster_points_list)))
                /\ generated_files' = Append(generated_files, KmlPath(number))
                /\ UNCHANGED total_discarded_points
           ELSE /\ total_discarded_points' =
                       total_discarded_points + Len(cluster_points_list)
                /\ UNCHANGED <<valid_cluster_count, kml_written, kml_writes,
                               log_messages, generated_files>>
    /\ next_cluster' = next_cluster + 1
    /\ pc' = IF next_cluster = Len(clusters) THEN "log" ELSE "emit"
    /\ UNCHANGED <<photo_files, next_photo, photos_with_gps, no_gps_count,
                   failed_count, clusters, total_clusters, log_written,
                   cpVars, trackVars,
                   restVars>>

\* mutant: every cluster is reported as discarded
Mut_discarded_clusters_all(dict, valid) == Len(dict)

\* the number reported as discarded clusters on line 198
discarded_clusters(dict, valid) == Len(dict) - valid

\* mutant: the log path is recorded only after a KML path
Mut_append_log_path(files) ==
    IF Len(files) > 0 THEN Append(files, LogPath) ELSE files

\* line 212
append_log_path(files) == Append(files, LogPath)

\* lines 196-212: the summary, the totals, the log file
write_log ==
    /\ pc = "log"
    /\ LET summary ==
               IF Len(photos_with_gps) > 0
               THEN <<Msg("valid", valid_cluster_count, 0),
                      Msg("discarded",
                          discarded_clusters(clusters, valid_cluster_count),
                          total_discarded_points)>>
               ELSE <<>>
           totals == <<Msg("with_gps", Len(photos_with_gps), 0),
                       Msg("without_gps", no_gps_count, 0),
                       Msg("failed_total", failed_count, 0)>>
       IN  /\ log_messages' = log_messages \o summary \o totals
           /\ log_written' = File(log_messages')
    /\ generated_files' = append_log_path(generated_files)
    /\ pc' = "done"
    /\ UNCHANGED <<photo_files, next_photo, photos_with_gps, no_gps_count,
                   failed_count, clusters, next_cluster, valid_cluster_count,
                   total_clusters, total_discarded_points, kml_written,
                   kml_writes, cpVars, trackVars,
                   restVars>>

Next ==
    \/ enter_directory
    \/ extract_photo
    \/ cluster_step
    \/ emit_cluster
    \/ write_log

Spec == Init /\ [][Next]_vars

\* ------------------------------------------------------------------------
\* create_kml applied to bounded lists of records (kml.py 77-114).
\* ------------------------------------------------------------------------
MaxRecords == 3     \* records of the list handed to create_kml

CaptureTimes ==
    { <<"2", "0", "2", "4", ":", "0", "1", ":", "0", "2", " ", "0", "3", ":", "0", "4", ":", "0", "5">>,
      <<"1", "9", "9", "9", ":", "1", "2", ":", "3", "1", " ", "2", "3", ":", "5", "9", ":", "5", "9">>,
      NoTimestamp,
      <<>> }

InitKml ==
    /\ DirIdle /\ CpIdle /\ TrackIdle /\ RunIdle /\ CleanIdle
    /\ \E n \in 0..MaxRecords : \E ts \in [1..n -> CaptureTimes] :
           fn_input = [i \in 1..n |-> [name |-> i, lat |-> 0, lon |-> 0, ts |-> ts[i]]]
    /\ fn_result = NotRun

run_create_kml ==
    /\ ~fn_result.returned
    /\ fn_result' = Returned(create_kml(fn_input, 1, 1, "folder"))
    /\ UNCHANGED <<fn_input, dirVars, cpVars, trackVars, runVars, cleanVars>>

NextKml == run_create_kml

SpecKml == InitKml /\ [][NextKml]_vars

\* ------------------------------------------------------------------------
\* sanitize_path applied to bounded texts (kml.py 13-19, cleankml.py 7-13).
\* ------------------------------------------------------------------------
MaxPathLen == 3     \* characters of the path handed to sanitize_path

PathChars == {"a", "_", ":", "/", "\\", " "}

\* mutant: a colon becomes an underscore
Mut_sanitize_path_colon(path) ==
    str_replace(str_replace(str_replace(str_replace(path,
        ":", <<"_">>, Unlimited), "\\", <<"_">>, Unlimited),
        "/", <<"_">>, Unlimited), " ", <<"_">>, Unlimited)

\* kml.py 13-19
sanitize_path(path) ==
    str_replace(str_replace(str_replace(str_replace(path,
        ":", <<>>, Unlimited), "\\", <<"_">>, Unlimited),
        "/", <<"_">>, Unlimited), " ", <<"_">>, Unlimited)

InitSanitize ==
    /\ DirIdle /\ CpIdle /\ TrackIdle /\ RunIdle /\ CleanIdle
    /\ \E n \in 0..MaxPathLen : fn_input \in [1..n -> PathChars]
    /\ fn_result = NotRun

run_sanitize_path ==
    /\ ~fn_result.returned
    /\ fn_result' = Returned(sanitize_path(fn_input))
    /\ UNCHANGED <<fn_input, dirVars, cpVars, trackVars, runVars, cleanVars>>

NextSanitize == run_sanitize_path

SpecSanitize == InitSanitize /\ [][NextSanitize]_vars

\* ------------------------------------------------------------------------
\* main of kml.py (281-295): the loop over the leaf directories.  A leaf
\* directory is held by what its processing meets: no photo file, or photo
\* files and the step of process_directory that raises, if one does.
\* ------------------------------------------------------------------------
MaxDirs == 3        \* leaf directories found by os.walk

\* the steps of process_directory outside its try block (138-212)
Failures == {"none", "os.listdir", "cluster_points", "create_kml", "log file"}

LeafDirectories ==
    {[photos |-> TRUE, raises |-> f] : f \in Failures}
    \cup {[photos |-> FALSE, raises |-> "none"]}

InitRun ==
    /\ DirIdle /\ CpIdle /\ TrackIdle /\ FnIdle /\ CleanIdle
    /\ run_pc = "loop"
    /\ \E n \in 0..MaxDirs : leaf_directories \in [1..n -> LeafDirectories]
    /\ run_next = 1
    /\ run_logs = {}

\* kml.py 283-285: one turn of the loop.  process_directory has no handler
\* around the listing, the clustering, create_kml or the log file, and main
\* has none around the call: the exception ends the run.
process_leaf_directory ==
    /\ run_pc = "loop" /\ run_next <= Len(leaf_directories)
    /\ LET leaf_dir == leaf_directories[run_next]
       IN  IF leaf_dir.raises # "none"
           THEN /\ run_pc' = "raised"
                /\ UNCHANGED <<run_next, run_logs>>
           ELSE /\ run_logs' = IF leaf_dir.photos THEN run_logs \cup {run_next}
                                ELSE run_logs
                /\ run_next' = run_next + 1
                /\ UNCHANGED run_pc
    /\ UNCHANGED <<leaf_directories, dirVars, cpVars, trackVars, fnVars, cleanVars>>

\* kml.py 287-295: after the loop
finish_run ==
    /\ run_pc = "loop" /\ run_next > Len(leaf_directories)
    /\ run_pc' = "done"
    /\ UNCHANGED <<leaf_directories, run_next, run_logs,
                   dirVars, cpVars, trackVars, fnVars, cleanVars>>

NextRun ==
    \/ process_leaf_directory
    \/ finish_run

SpecRun == InitRun /\ [][NextRun]_vars

\* ------------------------------------------------------------------------
\* cleankml.py.  The directory tree under main_dir: every directory exists
\* or not, holds source photographs or not, and holds a .kml or _log.txt
\* file or not.
\* ------------------------------------------------------------------------
MainDir == "main"
LeafDir == "main/a"
OutputSubdir == "main/a/out"
ConsolidatedFolder == "main/Consolidated_Output"

\* the directories in the order os.walk yields them
WalkOrder == <<MainDir, LeafDir, OutputSubdir, ConsolidatedFolder>>

Parent == [d \in {LeafDir, ConsolidatedFolder} |-> MainDir] @@ (OutputSubdir :> LeafDir)

\* d is e or lies under e
RECURSIVE is_under(_, _)
is_under(d, e) ==
    d = e \/ (d \in DOMAIN Parent /\ is_under(Parent[d], e))

NoDirectory == [exists |-> FALSE, photos |-> FALSE, output |-> FALSE]

DirectoryTrees ==
    {t \in [Range(WalkOrder) -> [exists : BOOLEAN, photos : BOOLEAN, output : BOOLEAN]] :
        /\ t[MainDir].exists
        /\ \A d \in DOMAIN t : ~t[d].exists => t[d] = NoDirectory
        /\ \A d \in DOMAIN Parent : t[d].exists => t[Parent[d]].exists
        /\ ~t[ConsolidatedFolder].photos}

\* cleankml.py 15-33
find_output_subdirs(tree) ==
    SelectSeq(WalkOrder,
              LAMBDA d : tree[d].exists /\ d # ConsolidatedFolder /\ tree[d].output)

\* shutil.rmtree(dir_path): the directory and everything under it
rmtree(tree, dir_path) ==
    [d \in DOMAIN tree |-> IF is_under(d, dir_path) THEN NoDirectory ELSE tree[d]]

\* cleankml.py 35-46, from the i-th directory on: the tree and the messages
RECURSIVE delete_directories(_, _, _, _)
delete_directories(directories, i, tree, messages) ==
    IF i > Len(directories) THEN [tree |-> tree, messages |-> messages]
    ELSE IF tree[directories[i]].exists
    THEN delete_directories(directories, i + 1, rmtree(tree, directories[i]),
                            Append(messages, Msg("deleted", directories[i], 0)))
    ELSE delete_directories(directories, i + 1, tree,
                            Append(messages, Msg("not deleted", directories[i], 0)))

\* str.strip() and str.lower() on the characters of the answers
RECURSIVE str_lstrip(_)
str_lstrip(text) ==
    IF Len(text) > 0 /\ Head(text) = " " THEN str_lstrip(Tail(text)) ELSE text

RECURSIVE str_rstrip(_)
str_rstrip(text) ==
    IF Len(text) > 0 /\ text[Len(text)] = " "
    THEN str_rstrip(SubSeq(text, 1, Len(text) - 1)) ELSE text

str_strip(text) == str_rstrip(str_lstrip(text))

str_lower(text) ==
    [i \in 1..Len(text) |->
        CASE text[i] = "Y" -> "y" [] text[i] = "N" -> "n" [] OTHER -> text[i]]

\* what the user types at the prompt
Answers ==
    {<<"y">>, <<" ", "Y", " ">>, <<"n">>, <<"N">>, <<>>, <<"y", "e", "s">>, <<" ">>}

\* mutant: any answer that starts with y confirms
Mut_is_confirmed_prefix(answer) == Len(answer) > 0 /\ Head(answer) = "y"

\* the test of line 102
is_confirmed(answer) == answer = <<"y">>

InitClean ==
    /\ DirIdle /\ CpIdle /\ TrackIdle /\ FnIdle /\ RunIdle
    /\ cl_pc = "find"
    /\ cl_initial \in DirectoryTrees
    /\ cl_tree = cl_initial
    /\ output_subdirs = <<>>
    /\ confirm = <<>>
    /\ cl_log_messages = <<>>
    /\ deletion_log = NoFile

\* cleankml.py 76-90
find_step ==
    /\ cl_pc = "find"
    /\ output_subdirs' = find_output_subdirs(cl_tree)
    /\ cl_pc' = IF Len(output_subdirs') = 0 /\ ~cl_tree[ConsolidatedFolder].exists
                THEN "nothing to delete" ELSE "prompt"
    /\ UNCHANGED <<cl_initial, cl_tree, confirm, cl_log_messages, deletion_log,
                   dirVars, cpVars, trackVars, fnVars, runVars>>

\* cleankml.py 92-104
ask_confirmation ==
    /\ cl_pc = "prompt"
    /\ \E answer \in Answers : confirm' = str_lower(str_strip(answer))
    /\ cl_pc' = IF is_confirmed(confirm') THEN "delete" ELSE "cancelled"
    /\ UNCHANGED <<cl_initial, cl_tree, output_subdirs, cl_log_messages,
                   deletion_log, dirVars, cpVars, trackVars, fnVars, runVars>>

\* cleankml.py 106-116
delete_output_subdirs ==
    /\ cl_pc = "delete"
    /\ LET after == delete_directories(output_subdirs, 1, cl_tree, <<>>)
       IN  /\ cl_tree' = after.tree
           /\ cl_log_messages' = after.messages
    /\ cl_pc' = "consolidated"
    /\ UNCHANGED <<cl_initial, output_subdirs, confirm, deletion_log,
                   dirVars, cpVars, trackVars, fnVars, runVars>>

\* cleankml.py 118-123, 48-63
delete_consolidated_output ==
    /\ cl_pc = "consolidated"
    /\ IF cl_tree[ConsolidatedFolder].exists
       THEN /\ cl_tree' = rmtree(cl_tree, ConsolidatedFolder)
            /\ cl_log_messages' =
                   Append(cl_log_messages, Msg("deleted", ConsolidatedFolder, 0))
       ELSE UNCHANGED <<cl_tree, cl_log_messages>>
    /\ cl_pc' = "log"
    /\ UNCHANGED <<cl_initial, output_subdirs, confirm, deletion_log,
                   dirVars, cpVars, trackVars, fnVars, runVars>>

\* cleankml.py 125-135: the log is a file of main_dir; open() fails when
\* main_dir is gone
write_deletion_log ==
    /\ cl_pc = "log"
    /\ deletion_log' = IF cl_tree[MainDir].exists THEN File(cl_log_messages)
                       ELSE NoFile
    /\ cl_pc' = "done"
    /\ UNCHANGED <<cl_initial, cl_tree, output_subdirs, confirm, cl_log_messages,
                   dirVars, cpVars, trackVars, fnVars, runVars>>

NextClean ==
    \/ find_step
    \/ ask_confirmation
    \/ delete_output_subdirs
    \/ delete_consolidated_output
    \/ write_deletion_log

SpecClean == InitClean /\ [][NextClean]_vars


\* ------------------------------------------------------------------------
\* Binary64 arithmetic of float(lon) + 0.000001 (topath.py 89-90).
\* A number is a dyadic rational (-1)^neg * bits * 2^exp; bits is a natural
\* number written as its binary digits, least significant first, and is odd
\* or empty (zero), so every number has one representation.  A double is a
\* dyadic rational of at most 53 significant bits; the coordinates of this
\* model are far from the overflow and subnormal ranges.
\* ------------------------------------------------------------------------
SignificandBits == 53       \* binary64

\* drop the zero digits at the most significant end
bn_trim(b) ==
    LET ones == {i \in 1..Len(b) : b[i] = 1}
    IN  IF ones = {} THEN <<>>
        ELSE SubSeq(b, 1, CHOOSE i \in ones : \A j \in ones : j <= i)

bn_digit(b, i) == IF i <= Len(b) THEN b[i] ELSE 0

bn_max(m, n) == IF m >= n THEN m ELSE n

\* the carry into digit i of a + b: some lower digit generates a carry and
\* every digit between passes it on
bn_carry(a, b, i) ==
    IF \E j \in 1..(i - 1) :
           /\ bn_digit(a, j) + bn_digit(b, j) = 2
           /\ \A k \in (j + 1)..(i - 1) : bn_digit(a, k) + bn_digit(b, k) >= 1
    THEN 1 ELSE 0

\* a + b
bn_add(a, b) ==
    bn_trim([i \in 1..(bn_max(Len(a), Len(b)) + 1) |->
                (bn_digit(a, i) + bn_digit(b, i) + bn_carry(a, b, i)) % 2])

\* the borrow from digit i of a - b
bn_borrow(a, b, i) ==
    IF \E j \in 1..(i - 1) :
           /\ bn_digit(a, j) < bn_digit(b, j)
           /\ \A k \in (j + 1)..(i - 1) : bn_digit(a, k) <= bn_digit(b, k)
    THEN 1 ELSE 0

\* a - b for a >= b
bn_sub(a, b) ==
    bn_trim([i \in 1..Len(a) |->
                (bn_digit(a, i) + bn_digit(b, i) + bn_borrow(a, b, i)) % 2])

\* a < b
bn_less(a, b) ==
    \E i \in 1..bn_max(Len(a), Len(b)) :
        /\ bn_digit(a, i) < bn_digit(b, i)
        /\ \A k \in (i + 1)..bn_max(Len(a), Len(b)) :
               bn_digit(a, k) = bn_digit(b, k)

\* a * 2^k
bn_shl(a, k) == IF Len(a) = 0 THEN a ELSE [i \in 1..k |-> 0] \o a

\* the binary digits of a natural number of the machine's int range
RECURSIVE bn_of_int(_)
bn_of_int(n) == IF n = 0 THEN <<>> ELSE <<n % 2>> \o bn_of_int(n \div 2)

Zero == [neg |-> FALSE, bits |-> <<>>, exp |-> 0]

\* the representation of (-1)^neg * b * 2^e
dy_norm(neg, b, e) ==
    LET ones == {i \in 1..Len(b) : b[i] = 1}
    IN  IF ones = {} THEN Zero
        ELSE LET low == CHOOSE i \in ones : \A j \in ones : i <= j
                 top == CHOOSE i \in ones : \A j \in ones : j <= i
             IN  [neg |-> neg, bits |-> SubSeq(b, low, top), exp |-> e + low - 1]

dy_neg(x) == IF Len(x.bits) = 0 THEN x ELSE [x EXCEPT !.neg = ~x.neg]

\* x + y, exactly
dy_add(x, y) ==
    LET e == IF x.exp <= y.exp THEN x.exp ELSE y.exp
        a == bn_shl(x.bits, x.exp - e)
        b == bn_shl(y.bits, y.exp - e)
    IN  IF x.neg = y.neg THEN dy_norm(x.neg, bn_add(a, b), e)
        ELSE IF bn_less(a, b) THEN dy_norm(y.neg, bn_sub(b, a), e)
        ELSE dy_norm(x.neg, bn_sub(a, b), e)

\* x < y
dy_less(x, y) ==
    LET d == dy_add(x, dy_neg(y)) IN d.neg /\ Len(d.bits) > 0

dy_abs(x) == [x EXCEPT !.neg = FALSE]

\* 2^k
dy_pow2(k) == [neg |-> FALSE, bits |-> <<1>>, exp |-> k]

\* the exponent of the leading binary digit of a non-zero number
dy_top(x) == x.exp + Len(x.bits) - 1

\* round to nearest, ties to even, at 53 significant bits
round_double(x) ==
    LET L == Len(x.bits)
        k == L - SignificandBits
    IN  IF k <= 0 THEN x
        ELSE LET kept == SubSeq(x.bits, k + 1, L)
                 half == x.bits[k] = 1
                 sticky == \E i \in 1..(k - 1) : x.bits[i] = 1
                 up == half /\ (sticky \/ kept[1] = 1)
             IN  dy_norm(x.neg, IF up THEN bn_add(kept, <<1>>) ELSE kept,
                         x.exp + k)

\* the float operations of the code
float_add(x, y) == round_double(dy_add(x, y))
float_sub(x, y) == round_double(dy_add(x, dy_neg(y)))

RECURSIVE Pow10(_)
Pow10(d) == IF d = 0 THEN 1 ELSE 10 * Pow10(d - 1)

RECURSIVE Pow2(_)
Pow2(k) == IF k = 0 THEN 1 ELSE 2 * Pow2(k - 1)

ChunkBits == 10     \* quotient digits computed per division step
ParseChunks == 8    \* division steps: 80 digits past the binary point

\* the digits of a natural number below 2^ChunkBits, least significant first
chunk_digits(c) == [i \in 1..ChunkBits |-> (c \div Pow2(i - 1)) % 2]

\* binary long division of rem / den, rem < den, ChunkBits digits a step:
\* the quotient digits past the binary point (least significant first) and
\* whether a remainder is left
RECURSIVE divide_from(_, _, _, _)
divide_from(rem, den, steps, quot) ==
    IF steps = 0 THEN [quot |-> quot, inexact |-> rem # 0]
    ELSE LET r == rem * Pow2(ChunkBits)
         IN  divide_from(r % den, den, steps - 1,
                         chunk_digits(r \div den) \o quot)

\* float(text) for a decimal text of at most 6 decimals: the double nearest
\* to n / 10^d
float_of_decimal(t) ==
    IF t.n = 0 THEN Zero
    ELSE LET den == Pow10(t.d)
             q == divide_from(t.n % den, den, ParseChunks, <<>>)
             sticky == IF q.inexact THEN 1 ELSE 0
         IN  round_double(dy_norm(t.neg,
                                  <<sticky>> \o q.quot \o bn_of_int(t.n \div den),
                                  -(ChunkBits * ParseChunks) - 1))

\* a decimal text such as -33.5: sign, digits read as a natural number, and
\* the count of digits after the point
Decimal(neg, n, d) == [kind |-> "decimal", neg |-> neg, n |-> n, d |-> d]

\* the literal 0.000001 of topath.py 89-90
OffsetText == Decimal(FALSE, 1, 6)

\* mutant: the line ends at the point it starts from
Mut_minor_offset_same(x) == x

\* x + 0.000001 (topath.py 89-90, 150-151)
minor_offset(x) == float_add(x, float_of_decimal(OffsetText))

\* ------------------------------------------------------------------------
\* The track pass: process_kml_file, process_xmp_file and main of topath.py,
\* process_kml_file_for_tracks, process_xmp_file_for_tracks and
\* process_tracks of PlainExtractTotrack.py.
\* ------------------------------------------------------------------------
MaxDocs == 2          \* documents found by the two globs
MaxPlacemarks == 2    \* placemarks of all scanned KML documents together

NoElement == "(no element)"     \* find() returned None
TrackStyle == "#track"
XmpDescription == "XMP coordinates"

\* the text of an element: a decimal number, some other text, or None
OtherText == [kind |-> "text", neg |-> FALSE, n |-> 0, d |-> 0]
NoText == [kind |-> "none", neg |-> FALSE, n |-> 0, d |-> 0]

\* the coordinates element of a Point: absent, empty, or its text split at
\* the commas
NoCoordinates == [kind |-> "absent", fields |-> <<>>]
EmptyCoordinates == [kind |-> "empty", fields |-> <<>>]
Coordinates(fields) == [kind |-> "text", fields |-> fields]

Placemark(point, coordinates, name, when) ==
    [point |-> point, coordinates |-> coordinates, name |-> name, when |-> when]

\* the placemarks of the scanned KML documents
Placemarks ==
    { Placemark(TRUE, Coordinates(<<Decimal(FALSE, 100, 1), Decimal(FALSE, 200, 1),
                                    Decimal(FALSE, 0, 0)>>),
                "IMG_1.jpg", NoElement),
      Placemark(TRUE, Coordinates(<<Decimal(FALSE, 116397, 3),
                                    Decimal(FALSE, 399042, 4)>>),
                NoElement, "2024-01-02T03:04:05Z"),
      Placemark(TRUE, Coordinates(<<OtherText, Decimal(FALSE, 200, 1)>>),
                "IMG_3.jpg", "2024-01-02T03:04:05Z"),
      Placemark(TRUE, Coordinates(<<Decimal(FALSE, 100, 1)>>), "IMG_4.jpg", NoElement),
      Placemark(TRUE, NoCoordinates, "IMG_5.jpg", NoElement),
      Placemark(FALSE, NoCoordinates, "IMG_1.jpg", NoElement) }

\* a KML file: etree.parse raises on malformed markup
MalformedKml == [well_formed |-> FALSE, placemarks |-> <<>>]
KmlDocument(placemarks) == [well_formed |-> TRUE, placemarks |-> placemarks]

KmlDocuments(count) ==
    {MalformedKml} \cup
    UNION { {KmlDocument(ps) : ps \in [1..k -> Placemarks]} : k \in 0..count }

\* the lists of at most docs KML files holding at most count placemarks
RECURSIVE KmlFileLists(_, _)
KmlFileLists(docs, count) ==
    {<<>>} \cup
    (IF docs = 0 THEN {}
     ELSE UNION { {<<d>> \o rest :
                      rest \in KmlFileLists(docs - 1, count - Len(d.placemarks))} :
                  d \in KmlDocuments(count) })

\* an XMP file: the elements matched by each xpath union, in document order
XmpElement(alias, text) == [alias |-> alias, text |-> text]
MalformedXmp(file) ==
    [file |-> file, well_formed |-> FALSE, lat_elements |-> <<>>, lon_elements |-> <<>>]
XmpDocument(file, lat_elements, lon_elements) ==
    [file |-> file, well_formed |-> TRUE,
     lat_elements |-> lat_elements, lon_elements |-> lon_elements]

XmpDocuments ==
    { XmpDocument("a.xmp", <<XmpElement("geo:lat", Decimal(FALSE, 5, 1))>>,
                           <<XmpElement("geo:lon", Decimal(TRUE, 335, 1))>>),
      XmpDocument("b.xmp", <<XmpElement("exif:GPSLatitude", Decimal(FALSE, 0, 0)),
                             XmpElement("geo:lat", Decimal(FALSE, 5, 1))>>,
                           <<XmpElement("exif:GPSLongitude", Decimal(FALSE, 179999999, 6))>>),
      XmpDocument("c.xmp", <<XmpElement("geo:lat", Decimal(FALSE, 5, 1))>>, <<>>),
      XmpDocument("d.xmp", <<XmpElement("xmp:Latitude", OtherText)>>,
                           <<XmpElement("xmp:Longitude", Decimal(FALSE, 100, 1))>>),
      MalformedXmp("e.xmp") }

RECURSIVE XmpFileLists(_)
XmpFileLists(docs) ==
    {<<>>} \cup
    (IF docs = 0 THEN {}
     ELSE UNION { {<<d>> \o rest : rest \in XmpFileLists(docs - 1)} :
                  d \in XmpDocuments })

\* the decimal texts of the scanned documents, each with float(text) and
\* float(text) + 0.000001
CoordTexts ==
    {t \in UNION ({Range(p.coordinates.fields) : p \in Placemarks}
                  \cup {{e.text : e \in Range(x.lat_elements)} : x \in XmpDocuments}
                  \cup {{e.text : e \in Range(x.lon_elements)} : x \in XmpDocuments}) :
        t.kind = "decimal"}

FloatTable ==
    {[text |-> t, float |-> float_of_decimal(t),
      offset |-> minor_offset(float_of_decimal(t))] : t \in CoordTexts}

float(t) == (CHOOSE r \in FloatTable : r.text = t).float
float_plus_offset(t) == (CHOOSE r \in FloatTable : r.text = t).offset

\* a Placemark of the Tracks folder.  A vertex is held by its value: the text
\* written for it (the source field, or the repr of the float) reads back as
\* that double.
NoLine == [written |-> FALSE, lon |-> Zero, lat |-> Zero, lon2 |-> Zero, lat2 |-> Zero]
Line(lon, lat) ==
    [written |-> TRUE, lon |-> float(lon), lat |-> float(lat),
     lon2 |-> float_plus_offset(lon), lat2 |-> float_plus_offset(lat)]

\* mutant: a description element is created for every entry
Mut_new_placemark_described(placemark) ==
    [name |-> placemark.name,
     description |-> IF placemark.when = NoElement THEN "" ELSE placemark.when,
     styleUrl |-> TrackStyle, coordinates |-> NoLine]

\* topath.py 60-86: the new Placemark before its coordinates are computed
new_placemark(placemark) ==
    [name |-> placemark.name, description |-> placemark.when,
     styleUrl |-> TrackStyle, coordinates |-> NoLine]

\* mutant: a placemark without a Point is given an entry too
Mut_without_point_converted(placemark, tracks) ==
    Append(tracks, new_placemark(placemark))

\* topath.py 52-55: nothing is added for a placemark that has no Point, or
\* whose Point has no coordinates element
without_point(placemark, tracks) == tracks

\* topath.py 51-92: the loop over the placemarks of one file, from the i-th
\* on; an exception ends it with the elements added so far
RECURSIVE process_placemarks(_, _, _)
process_placemarks(placemarks, i, tracks) ==
    IF i > Len(placemarks) THEN tracks
    ELSE LET placemark == placemarks[i]
             coordinates == placemark.coordinates
         IN  IF ~placemark.point \/ coordinates.kind = "absent"
             THEN process_placemarks(placemarks, i + 1,
                                     without_point(placemark, tracks))
             \* line 56: None has no strip; line 57: fewer than two fields
             ELSE IF coordinates.kind = "empty" \/ Len(coordinates.fields) < 2
             THEN tracks
             ELSE LET lon == coordinates.fields[1]
                      lat == coordinates.fields[2]
                  IN  \* lines 89-90: float() raises after the Placemark and
                      \* its empty coordinates element were appended
                      IF lon.kind # "decimal" \/ lat.kind # "decimal"
                      THEN Append(tracks, new_placemark(placemark))
                      ELSE process_placemarks(placemarks, i + 1,
                               Append(tracks, [new_placemark(placemark) EXCEPT
                                                  !.coordinates = Line(lon, lat)]))

\* topath.py 43-94
process_kml_file(document, tracks) ==
    IF ~document.well_formed THEN tracks
    ELSE process_placemarks(document.placemarks, 1, tracks)

\* lat_elements[0].text, or None (topath.py 109-112)
first_text(elements) == IF Len(elements) > 0 THEN elements[1].text ELSE NoText

\* topath.py 96-158
process_xmp_file(document, tracks) ==
    IF ~document.well_formed THEN tracks
    ELSE LET lat == first_text(document.lat_elements)
             lon == first_text(document.lon_elements)
         IN  IF lat.kind = "none" \/ lon.kind = "none" THEN tracks
             ELSE IF lat.kind # "decimal" \/ lon.kind # "decimal" THEN tracks
             ELSE Append(tracks, [name |-> document.file,
                                  description |-> XmpDescription,
                                  styleUrl |-> TrackStyle,
                                  coordinates |-> Line(lon, lat)])

\* the stage that follows the i-th file of a stage
after_kml(i) ==
    IF i < Len(tk_kml_files) THEN "kml"
    ELSE IF Len(tk_xmp_files) > 0 THEN "xmp" ELSE "write"

after_xmp(i) == IF i < Len(tk_xmp_files) THEN "xmp" ELSE "write"

InitTrack ==
    /\ DirIdle /\ CpIdle /\ RestIdle
    /\ tk_pc = "start"
    /\ tk_kml_files \in KmlFileLists(MaxDocs, MaxPlacemarks)
    /\ tk_xmp_files \in XmpFileLists(MaxDocs - Len(tk_kml_files))
    /\ tk_next = 0
    /\ folder_tracks = <<>>
    /\ tk_output = NoFile
    /\ tk_earlier = NoFile

\* topath.py 162-171: nothing is written when neither glob finds a file
start_tracks ==
    /\ tk_pc = "start"
    /\ tk_pc' = IF Len(tk_kml_files) = 0 /\ Len(tk_xmp_files) = 0
                THEN "no_files" ELSE after_kml(0)
    /\ tk_next' = IF Len(tk_kml_files) = 0 /\ Len(tk_xmp_files) = 0 THEN 0 ELSE 1
    /\ folder_tracks' = <<>>
    /\ UNCHANGED <<tk_kml_files, tk_xmp_files, tk_output, tk_earlier, dirVars,
                   cpVars, restVars>>

\* topath.py 174-176: one turn of the loop over the KML files
track_kml_file ==
    /\ tk_pc = "kml"
    /\ folder_tracks' = process_kml_file(tk_kml_files[tk_next], folder_tracks)
    /\ tk_pc' = after_kml(tk_next)
    /\ tk_next' = IF tk_next < Len(tk_kml_files) THEN tk_next + 1 ELSE 1
    /\ UNCHANGED <<tk_kml_files, tk_xmp_files, tk_output, tk_earlier, dirVars,
                   cpVars, restVars>>

\* topath.py 179-181: one turn of the loop over the XMP files
track_xmp_file ==
    /\ tk_pc = "xmp"
    /\ folder_tracks' = process_xmp_file(tk_xmp_files[tk_next], folder_tracks)
    /\ tk_pc' = after_xmp(tk_next)
    /\ tk_next' = IF tk_next < Len(tk_xmp_files) THEN tk_next + 1 ELSE 0
    /\ UNCHANGED <<tk_kml_files, tk_xmp_files, tk_output, tk_earlier, dirVars,
                   cpVars, restVars>>

\* topath.py 184-187
write_tracks ==
    /\ tk_pc = "write"
    /\ tk_output' = File(folder_tracks)
    /\ tk_pc' = "done"
    /\ tk_next' = 0
    /\ UNCHANGED <<tk_kml_files, tk_xmp_files, folder_tracks, tk_earlier, dirVars,
                   cpVars, restVars>>

\* the written TrackDocument as etree.parse and findall read it back
\* (topath.py 45-54): one Placemark per entry, in the order of the Tracks
\* folder, with the name it was given, a LineString and no Point, a
\* description and no TimeStamp
track_document(entries) ==
    KmlDocument([i \in 1..Len(entries) |->
                    Placemark(FALSE, NoCoordinates, entries[i].name, NoElement)])

\* the list with one more element at place k
insert_at(seq, k, element) ==
    SubSeq(seq, 1, k - 1) \o <<element>> \o SubSeq(seq, k, Len(seq))

\* topath.py 160-171: the script is started again in the same directory; the
\* glob now lists converted_tracks.kml among the KML files, at any place
run_again ==
    /\ tk_pc = "done"
    /\ ~tk_earlier.written
    /\ \E k \in 1..Len(tk_kml_files) + 1 :
           tk_kml_files' =
               insert_at(tk_kml_files, k, track_document(tk_output.content))
    /\ tk_earlier' = tk_output
    /\ tk_pc' = "start"
    /\ tk_next' = 0
    /\ folder_tracks' = <<>>
    /\ UNCHANGED <<tk_xmp_files, tk_output, dirVars, cpVars, restVars>>

NextTrack ==
    \/ start_tracks
    \/ track_kml_file
    \/ track_xmp_file
    \/ write_tracks
    \/ run_again

SpecTrack == InitTrack /\ [][NextTrack]_vars

\* ========================================================================
\* Properties
\* ========================================================================
\* the places (cluster, position) at which rec occurs in a clustering
occurrences(dict, rec) ==
    {<<k, j>> \in (1..Len(dict)) \X (1..MaxPhotos + MaxInput + 2) :
        j <= Len(dict[k].members) /\ dict[k].members[j] = rec}

RECURSIVE member_total(_, _)
member_total(dict, k) ==
    IF k > Len(dict) THEN 0
    ELSE Len(dict[k].members) + member_total(dict, k + 1)

\* C1: cluster_points returns a partition of a non-empty input: every input
\* record is a member of exactly one cluster, exactly once, and every member
\* of a cluster is an input record.
C1_Partition ==
    (cp_result.returned /\ Len(cp_input) > 0) =>
        /\ \A i \in 1..Len(cp_input) :
               Cardinality(occurrences(cp_result.value, cp_input[i])) = 1
        /\ \A k \in 1..Len(cp_result.value) :
               /\ Len(cp_result.value[k].members) > 0
               /\ Range(cp_result.value[k].members) \subseteq Range(cp_input)
        /\ member_total(cp_result.value, 1) = Len(cp_input)

\* five records, clustered into at least two clusters, one with several members
C1_Witness ==
    /\ cp_result.returned
    /\ Len(cp_input) = 5
    /\ Len(cp_result.value) >= 2
    /\ \E k \in 1..Len(cp_result.value) : Len(cp_result.value[k].members) >= 3

\* the records linked to those of S by a chain of steps of at most max_distance
RECURSIVE chain_closure(_, _, _)
chain_closure(input, max_distance, S) ==
    LET T == S \cup {j \in 1..Len(input) :
                        \E i \in S : haversine_sq(input[i], input[j])
                                        <= max_distance * max_distance}
    IN  IF T = S THEN S ELSE chain_closure(input, max_distance, T)

same_cluster(dict, r1, r2) ==
    \E k \in 1..Len(dict) :
        r1 \in Range(dict[k].members) /\ r2 \in Range(dict[k].members)

\* C2: two records are in the same cluster if and only if a chain of input
\* records, each step of great-circle distance at most max_distance, links them.
C2_ChainConnectivity ==
    cp_result.returned =>
        \A i \in 1..Len(cp_input) :
            {j \in 1..Len(cp_input) :
                same_cluster(cp_result.value, cp_input[i], cp_input[j])}
            = chain_closure(cp_input, cp_max_distance, {i})

\* a cluster holds two records farther apart than max_distance (linked only
\* through a third), and another record is left in a cluster of its own
C2_Witness ==
    /\ cp_result.returned
    /\ Len(cp_result.value) >= 2
    /\ \E i, j \in 1..Len(cp_input) :
           /\ same_cluster(cp_result.value, cp_input[i], cp_input[j])
           /\ haversine_sq(cp_input[i], cp_input[j])
                > cp_max_distance * cp_max_distance

\* ---- process_directory

Clustered == pc \in {"emit", "log", "done"}

\* the clusters of more than 3 records / of 3 records or fewer, in iteration order
big_clusters == SelectSeq(clusters, LAMBDA c : Len(c.members) >= 4)
small_clusters == SelectSeq(clusters, LAMBDA c : Len(c.members) <= 3)

files_holding(members) ==
    {n \in DOMAIN kml_written : kml_written[n].placemarks = members}

\* C3: a cluster is written as a KML file if and only if it has more than 3
\* members: each cluster of 4 or more is written to exactly one file, no
\* cluster of 3 or fewer is written, and nothing else is written.
C3_RetainedIffMoreThanThree ==
    /\ pc = "done" =>
          /\ \A k \in 1..Len(clusters) :
                 Cardinality(files_holding(clusters[k].members)) =
                     (IF Len(clusters[k].members) > 3 THEN 1 ELSE 0)
          /\ kml_writes = Len(big_clusters)
          /\ Cardinality(DOMAIN kml_written) = Len(big_clusters)
    /\ \A n \in DOMAIN kml_written : Len(kml_written[n].placemarks) >= 4

\* a cluster of exactly 4 records was written and one of exactly 3 was not
C3_Witness ==
    /\ pc = "done"
    /\ \E k \in 1..Len(clusters) :
           Len(clusters[k].members) = 4 /\ files_holding(clusters[k].members) # {}
    /\ \E k \in 1..Len(clusters) :
           Len(clusters[k].members) = 3 /\ files_holding(clusters[k].members) = {}

kml_paths == SelectSeq(generated_files, LAMBDA f : f.kind = "kml")

\* C4: the K retained groups are numbered 1..K in cluster iteration order;
\* the i-th is written to file i with a title naming the folder, i and K; K
\* is the number of files written, and no title's index exceeds its total.
C4_Numbering ==
    /\ pc = "done" =>
          LET K == Len(big_clusters)
          IN  /\ DOMAIN kml_written = 1..K
              /\ kml_writes = K
              /\ kml_paths = [i \in 1..K |-> KmlPath(i)]
              /\ \A i \in 1..K :
                     /\ kml_written[i].title =
                            [folder |-> "folder", number |-> i, total |-> K]
                     /\ kml_written[i].placemarks = big_clusters[i].members
    /\ \A n \in DOMAIN kml_written :
           /\ kml_written[n].title.number = n
           /\ 1 <= n /\ n <= kml_written[n].title.total

\* two groups were retained, and a discarded cluster precedes a retained one
C4_Witness ==
    /\ pc = "done"
    /\ Len(big_clusters) = 2
    /\ DOMAIN kml_written = {1, 2}

C4b_Witness ==
    /\ pc = "done"
    /\ Len(clusters) = 2
    /\ Len(clusters[1].members) = 1
    /\ Len(clusters[2].members) >= 4
    /\ 1 \in DOMAIN kml_written

\* position of a record in the clustering input
input_pos(rec) ==
    CHOOSE i \in 1..Len(photos_with_gps) : photos_with_gps[i] = rec

strictly_increasing(seq) ==
    \A i, j \in 1..Len(seq) : i < j => seq[i] < seq[j]

\* C5: clusters are iterated in the order in which their first member occurs
\* in the input, members keep their input order, and so the retained group
\* written under a smaller index has the earlier first member.
C5_FirstOccurrenceOrder ==
    /\ Clustered =>
          /\ strictly_increasing(
                 [k \in 1..Len(clusters) |-> input_pos(clusters[k].members[1])])
          /\ \A k \in 1..Len(clusters) :
                 strictly_increasing(
                     [j \in 1..Len(clusters[k].members) |->
                         input_pos(clusters[k].members[j])])
    /\ pc = "done" =>
          \A m, n \in DOMAIN kml_written :
              m < n => input_pos(kml_written[m].placemarks[1])
                         < input_pos(kml_written[n].placemarks[1])

\* two retained groups whose members interleave in the input
C5_Witness ==
    /\ pc = "done"
    /\ DOMAIN kml_written = {1, 2}
    /\ input_pos(kml_written[2].placemarks[1])
         < input_pos(kml_written[1].placemarks[4])

RECURSIVE placemark_total(_)
placemark_total(S) ==
    IF S = {} THEN 0
    ELSE LET n == CHOOSE n \in S : TRUE
         IN  Len(kml_written[n].placemarks) + placemark_total(S \ {n})

\* C6: the log reports the number of clusters of 3 or fewer members and the
\* sum of their member counts; the points written plus the discarded points
\* are the records with GPS data.
C6_DiscardCounts ==
    (pc = "done" /\ Len(photos_with_gps) > 0) =>
        /\ Cardinality({i \in 1..Len(log_written.content) :
                           log_written.content[i].kind = "discarded"}) = 1
        /\ \A i \in 1..Len(log_written.content) :
               log_written.content[i].kind = "discarded" =>
                   /\ log_written.content[i].a = Len(small_clusters)
                   /\ log_written.content[i].b = member_total(small_clusters, 1)
                   /\ placemark_total(DOMAIN kml_written) + log_written.content[i].b
                          = Len(photos_with_gps)

\* one retained group, one discarded cluster of 3 records, a photo without GPS
C6_Witness ==
    /\ pc = "done"
    /\ Len(clusters) = 2
    /\ Len(big_clusters) = 1
    /\ Len(small_clusters[1].members) = 3
    /\ Len(photos_with_gps) < photo_files
    /\ Msg("discarded", 1, 3) \in Range(log_written.content)

\* C7: with at least one GPS record and no cluster of more than 3 members,
\* process_directory runs to its end, writes no KML file, writes the log
\* file and records exactly the log path in the generated-files list.
C7_NoRetainedGroup ==
    /\ (pc = "done" /\ Len(photos_with_gps) > 0 /\ Len(big_clusters) = 0) =>
          /\ kml_writes = 0
          /\ DOMAIN kml_written = {}
          /\ log_written.written
          /\ generated_files = <<LogPath>>
    /\ (pc = "log" /\ Len(photos_with_gps) > 0 /\ valid_cluster_count = 0) =>
          ENABLED write_log

\* two photos too far apart to be linked: two clusters of one record each
C7_Witness ==
    /\ pc = "done"
    /\ Len(photos_with_gps) = 2
    /\ Len(clusters) = 2
    /\ kml_writes = 0
    /\ log_written.written

\* ------------------------------------------------------------------------
\* Track pass
\* ------------------------------------------------------------------------
\* the complete entries of the Tracks folder
complete_entries == {e \in Range(folder_tracks) : e.coordinates.written}

\* the doubles that occur as the coordinate of a first and of a second vertex
Origins == {r.float : r \in FloatTable}
Offsets == {r.offset : r \in FloatTable}

\* the binary64 difference y - x is the double 0.000001
exact_offset(x, y) == float_sub(y, x) = float_of_decimal(OffsetText)

\* x < y, and y is within half a unit in the last place of y from
\* x + 0.000001, both taken exactly
rounded_offset(x, y) ==
    /\ dy_less(x, y)
    /\ LET exact == dy_add(x, float_of_decimal(OffsetText))
           error == dy_abs(dy_add(y, dy_neg(exact)))
       IN  ~dy_less(dy_pow2(dy_top(y) - SignificandBits), error)

\* the pairs of vertex coordinates with each property, enumerated once
ExactPairs ==
    UNION {IF exact_offset(pair[1], pair[2]) THEN {pair} ELSE {} :
              pair \in Origins \X Offsets}

RoundedPairs ==
    UNION {IF rounded_offset(pair[1], pair[2]) THEN {pair} ELSE {} :
              pair \in Origins \X Offsets}

\* C8 as stated: for every track entry the second vertex differs from the
\* first by exactly 0.000001 on each axis (the difference taken in binary64,
\* minorOffset - origin == 1e-6), so the vertices are never equal.
C8_ExactOffset ==
    \A e \in complete_entries :
        /\ <<e.coordinates.lon, e.coordinates.lon2>> \in ExactPairs
        /\ <<e.coordinates.lat, e.coordinates.lat2>> \in ExactPairs

\* C8 amended: for every track entry with coordinates, on each axis the
\* second vertex is greater than the first and is x + 0.000001 rounded to
\* the nearest double: it is within half a unit in the last place of the
\* exact sum, and the vertices are never equal.
C8_OffsetWithinRounding ==
    \A e \in complete_entries :
        /\ <<e.coordinates.lon, e.coordinates.lon2>> \in RoundedPairs
        /\ <<e.coordinates.lat, e.coordinates.lat2>> \in RoundedPairs

\* a written TrackDocument holds an entry read from a KML placemark whose
\* offset is rounded on both axes (10.0, 20.0), and an entry read from an
\* XMP file
C8_Witness ==
    /\ tk_pc = "done"
    /\ \E e \in Range(tk_output.content) :
           /\ e.coordinates.written /\ e.name = "IMG_1.jpg"
           /\ <<e.coordinates.lon, e.coordinates.lon2>> \notin ExactPairs
           /\ <<e.coordinates.lat, e.coordinates.lat2>> \notin ExactPairs
           /\ <<e.coordinates.lon, e.coordinates.lon2>> \in RoundedPairs
    /\ \E e \in Range(tk_output.content) :
           e.coordinates.written /\ e.description = XmpDescription

\* a point placemark: a Point with a coordinates text
is_point_placemark(p) == p.point /\ p.coordinates.kind = "text"

\* a KML file that fails to parse: malformed markup, or a point placemark
\* with a missing coordinate field or a non-numeric coordinate value
kml_fails(d) ==
    \/ ~d.well_formed
    \/ \E p \in Range(d.placemarks) :
           /\ p.point
           /\ p.coordinates.kind # "absent"
           /\ \/ p.coordinates.kind = "empty"
              \/ Len(p.coordinates.fields) < 2
              \/ p.coordinates.fields[1].kind # "decimal"
              \/ p.coordinates.fields[2].kind # "decimal"

kml_parses(d) == ~kml_fails(d)

\* an XMP file that fails to parse: malformed markup, a missing coordinate
\* or a non-numeric one
xmp_fails(d) ==
    \/ ~d.well_formed
    \/ first_text(d.lat_elements).kind # "decimal"
    \/ first_text(d.lon_elements).kind # "decimal"

xmp_parses(d) == ~xmp_fails(d)

\* the Tracks folder after the files from the i-th on
RECURSIVE kml_pass(_, _, _)
kml_pass(files, i, tracks) ==
    IF i > Len(files) THEN tracks
    ELSE kml_pass(files, i + 1, process_kml_file(files[i], tracks))

RECURSIVE xmp_pass(_, _, _)
xmp_pass(files, i, tracks) ==
    IF i > Len(files) THEN tracks
    ELSE xmp_pass(files, i + 1, process_xmp_file(files[i], tracks))

\* the line placemark of a point placemark
line_placemark(p) ==
    [name |-> p.name, description |-> p.when, styleUrl |-> TrackStyle,
     coordinates |-> Line(p.coordinates.fields[1], p.coordinates.fields[2])]

\* one line placemark per point placemark of a document, in source order
RECURSIVE document_lines(_, _)
document_lines(placemarks, i) ==
    IF i > Len(placemarks) THEN <<>>
    ELSE (IF is_point_placemark(placemarks[i])
          THEN <<line_placemark(placemarks[i])>> ELSE <<>>)
         \o document_lines(placemarks, i + 1)

\* the lines of the documents from the i-th on, document after document
RECURSIVE all_lines(_, _)
all_lines(files, i) ==
    IF i > Len(files) THEN <<>>
    ELSE document_lines(files[i].placemarks, 1) \o all_lines(files, i + 1)

\* C9 as stated: the written TrackDocument holds exactly one line placemark
\* per point placemark of the scanned point documents (those that parse), in
\* document-then-entry order, none dropped, reordered or deduplicated; the
\* entries of the XMP files follow them.
C9_OneLinePerPointPlacemark ==
    tk_pc = "done" =>
        tk_output.content =
            all_lines(SelectSeq(tk_kml_files, kml_parses), 1)
            \o xmp_pass(tk_xmp_files, 1, <<>>)

\* C10 as stated: a document that fails to parse contributes no placemark,
\* complete or partial: the written TrackDocument is the one the pass writes
\* when the failing documents are not there, every other document is still
\* processed and the TrackDocument is still written.
C10_FailedDocumentSkipped ==
    tk_pc = "done" =>
        /\ tk_output.written
        /\ tk_output.content =
               xmp_pass(SelectSeq(tk_xmp_files, xmp_parses), 1,
                        kml_pass(SelectSeq(tk_kml_files, kml_parses), 1, <<>>))

\* the known aliases of each coordinate, highest priority first
LatAliases == <<"geo:lat", "exif:GPSLatitude", "xmp:Latitude">>
LonAliases == <<"geo:lon", "exif:GPSLongitude", "xmp:Longitude">>

\* the elements that carry one alias, in document order
with_alias(elements, alias) == SelectSeq(elements, LAMBDA e : e.alias = alias)

\* the text of the highest-priority alias present, or None
priority_text(elements, aliases) ==
    LET present == {k \in 1..Len(aliases) : Len(with_alias(elements, aliases[k])) > 0}
    IN  IF present = {} THEN NoText
        ELSE with_alias(elements,
                        aliases[CHOOSE k \in present : \A j \in present : k <= j])[1].text

\* the entries of the written TrackDocument read from an XMP file
xmp_entries(d) ==
    {e \in Range(tk_output.content) :
        e.name = d.file /\ e.description = XmpDescription /\ e.coordinates.written}

\* C11 as stated: the latitude (longitude) used for a metadata document is the
\* value of the highest-priority alias present, in the order geo, exif, xmp,
\* whatever the order of the elements in the document.
C11_AliasPriority ==
    tk_pc = "done" =>
        \A d \in Range(tk_xmp_files) : \A e \in xmp_entries(d) :
            LET lat == priority_text(d.lat_elements, LatAliases)
                lon == priority_text(d.lon_elements, LonAliases)
            IN  /\ lat.kind = "decimal" => e.coordinates.lat = float(lat)
                /\ lon.kind = "decimal" => e.coordinates.lon = float(lon)

\* the placemarks of a document for which process_kml_file can reach the
\* creation of an entry: a Point whose coordinates text has two fields
convertible(placemarks) ==
    SelectSeq(placemarks,
              LAMBDA p : p.point /\ p.coordinates.kind = "text"
                         /\ Len(p.coordinates.fields) >= 2)

\* the entries one step appended to the Tracks folder
appended == SubSeq(folder_tracks', Len(folder_tracks) + 1, Len(folder_tracks'))

\* C12: every entry made from a point placemark of a KML document has the
\* name of its source placemark if and only if the source has one, and a
\* description if and only if the source has a timestamp, equal to its text;
\* without a timestamp the entry has no description.
C12_NameAndDescriptionCarried ==
    [][track_kml_file =>
          LET source == convertible(tk_kml_files[tk_next].placemarks)
          IN  /\ folder_tracks = SubSeq(folder_tracks', 1, Len(folder_tracks))
              /\ Len(appended) <= Len(source)
              /\ \A i \in 1..Len(appended) :
                     /\ appended[i].name = source[i].name
                     /\ appended[i].description = source[i].when
                     /\ (source[i].when = NoElement
                            => appended[i].description = NoElement)]_vars

\* a written TrackDocument holds the entry of a placemark with a name and no
\* timestamp, and the entry of a placemark with a timestamp and no name
C12_Witness ==
    /\ tk_pc = "done"
    /\ \E e \in Range(tk_output.content) :
           /\ e.coordinates.written
           /\ e.name = "IMG_1.jpg" /\ e.description = NoElement
    /\ \E e \in Range(tk_output.content) :
           /\ e.coordinates.written
           /\ e.name = NoElement /\ e.description = "2024-01-02T03:04:05Z"

\* ------------------------------------------------------------------------
\* create_kml
\* ------------------------------------------------------------------------
Digits == {"0", "1", "2", "3", "4", "5", "6", "7", "8", "9"}

\* a capture time of the form YYYY:MM:DD HH:MM:SS
exif_datetime(t) ==
    /\ t # NoTimestamp /\ Len(t) = 19
    /\ t[5] = ":" /\ t[8] = ":" /\ t[11] = " " /\ t[14] = ":" /\ t[17] = ":"
    /\ \A i \in (1..19) \ {5, 8, 11, 14, 17} : t[i] \in Digits

\* C13: a placemark has a timestamp if and only if the record's capture time
\* is present, and for a capture time YYYY:MM:DD HH:MM:SS the written value
\* is YYYY-MM-DDTHH:MM:SSZ: the first two colons are hyphens, the colons of
\* the time part are kept, the space is T, Z is appended, no digit changes.
C13_TimestampFormat ==
    fn_result.returned =>
        /\ Len(fn_result.value.placemarks) = Len(fn_input)
        /\ \A i \in 1..Len(fn_input) :
               LET t == fn_input[i].ts
                   w == fn_result.value.placemarks[i].ts
               IN  /\ (w # NoTimestamp) <=> (t # NoTimestamp /\ t # <<>>)
                   /\ exif_datetime(t) =>
                          /\ Len(w) = 20
                          /\ w[5] = "-" /\ w[8] = "-" /\ w[11] = "T"
                          /\ w[14] = ":" /\ w[17] = ":" /\ w[20] = "Z"
                          /\ \A k \in (1..19) \ {5, 8, 11} : w[k] = t[k]

\* create_kml returned a document holding a placemark made from a capture
\* time YYYY:MM:DD HH:MM:SS and a placemark made from a record without one
C13_Witness ==
    /\ fn_result.returned
    /\ \E i \in 1..Len(fn_input) :
           exif_datetime(fn_input[i].ts) /\ Len(fn_result.value.placemarks[i].ts) = 20
    /\ \E i \in 1..Len(fn_input) :
           fn_input[i].ts = NoTimestamp /\ fn_result.value.placemarks[i].ts = NoTimestamp

\* ------------------------------------------------------------------------
\* sanitize_path
\* ------------------------------------------------------------------------
Replaced == {"/", "\\", " "}

C15_FailureStaysInDirectory ==
    /\ run_pc # "raised"
    /\ \A i \in 1..Len(leaf_directories) :
           (leaf_directories[i].photos /\ i < run_next) => i \in run_logs
    /\ (run_pc # "loop" /\ run_pc # "idle") => run_next > Len(leaf_directories)

\* ------------------------------------------------------------------------
\* cluster_points: the diameter of a cluster
\* ------------------------------------------------------------------------
\* C16 as stated: the distance between any two points of the same cluster
\* does not exceed max_distance.
C16_ClusterDiameter ==
    cp_result.returned =>
        \A k \in 1..Len(cp_result.value) :
            \A a, b \in Range(cp_result.value[k].members) :
                within_eps(a, b, cp_max_distance)

\* ------------------------------------------------------------------------
\* process_directory: the outcome of every photo
\* ------------------------------------------------------------------------
\* the photos with a GPS record, and the photos logged as failed
gps_photos == {r.name : r \in Range(photos_with_gps)}
failed_photos == {m.a : m \in {x \in Range(log_messages) : x.kind = "failed"}}

\* the photos the extraction loop has handled
handled_photos == IF pc = "extract" THEN next_photo - 1 ELSE photo_files

\* C17: every photo file is counted in exactly one of GPS extracted, no GPS
\* information and processing failed; at the end of the extraction loop the
\* three counts sum to the number of photo files, and a photo that failed or
\* has no coordinates is never part of the clustering input.
C17_OneOutcomePerPhoto ==
    pc \in {"extract", "cluster", "emit", "log", "done"} =>
        /\ Len(photos_with_gps) + no_gps_count + failed_count = handled_photos
        /\ Cardinality(gps_photos) = Len(photos_with_gps)
        /\ Cardinality(failed_photos) = failed_count
        /\ gps_photos \cap failed_photos = {}
        /\ gps_photos \cup failed_photos \subseteq 1..handled_photos
        /\ no_gps_count = handled_photos - Cardinality(gps_photos \cup failed_photos)
        /\ \A k \in 1..Len(clusters) : \A r \in Range(clusters[k].members) :
               r \in Range(photos_with_gps)

\* the extraction loop has ended with a failed photo and clustered GPS
\* records
C17_Witness ==
    /\ pc = "emit" /\ failed_count = 1 /\ Len(photos_with_gps) >= 2
    /\ Len(clusters) >= 1

\* ------------------------------------------------------------------------
\* cleankml.py
\* ------------------------------------------------------------------------
\* d held source photographs, directly or in a descendant, when the script
\* started
holds_photos(d) ==
    \E e \in DOMAIN cl_initial : cl_initial[e].photos /\ is_under(e, d)

\* C18 as stated: the main directory is never deleted, and no directory that
\* holds source photographs, directly or in a descendant, is deleted, even
\* when a .kml or _log.txt file lies next to the photographs.
C18_OnlyGeneratedOutputDeleted ==
    cl_pc # "idle" =>
        /\ cl_tree[MainDir].exists
        /\ \A d \in DOMAIN cl_tree : holds_photos(d) => cl_tree[d] = cl_initial[d]

\* C19: nothing is deleted before the user has answered the prompt, and when
\* the answer, trimmed and lower-cased, is anything other than y the run
\* ends with the file system unchanged: no directory deleted and no deletion
\* log written.
C19_NothingWithoutConfirmation ==
    /\ cl_pc \in {"find", "prompt", "nothing to delete", "cancelled"} =>
           cl_tree = cl_initial /\ ~deletion_log.written
    /\ cl_pc = "cancelled" => confirm # <<"y">>
    /\ (cl_tree # cl_initial \/ deletion_log.written) => confirm = <<"y">>
    /\ confirm # <<"y">> => cl_pc \in {"idle", "find", "prompt", "nothing to delete", "cancelled"}

\* the user answered yes where y is expected, with an output subdirectory
\* found: the run is cancelled and the subdirectory is still there
C19_Witness ==
    /\ cl_pc = "cancelled"
    /\ confirm = <<"y", "e", "s">>
    /\ Len(output_subdirs) > 0
    /\ cl_tree[output_subdirs[1]].exists

\* C20: a TrackDocument written by an earlier run and found again among the
\* KML files contributes no entry, wherever the glob lists it: the run over
\* the same documents plus that earlier output writes a TrackDocument with
\* the same entries, in the same order, as the earlier run.
C20_EarlierOutputAddsNothing ==
    tk_earlier.written =>
        /\ process_kml_file(track_document(tk_earlier.content), folder_tracks)
               = folder_tracks
        /\ tk_pc = "done" => tk_output.content = tk_earlier.content

\* the second run has written its TrackDocument; the earlier one held a
\* complete line entry, was listed first among the KML files and a point
\* document was processed after it
C20_Witness ==
    /\ tk_pc = "done"
    /\ tk_earlier.written
    /\ \E e \in Range(tk_earlier.content) : e.coordinates.written
    /\ Len(tk_kml_files) > 1
    /\ tk_kml_files[1] = track_document(tk_earlier.content)
    /\ \E p \in Range(tk_kml_files[2].placemarks) : is_point_placemark(p)

====
